---- MODULE Spec2Model ----
(***************************************************************************)
(* openblas-build (src/openblas-build/src/lib.rs): BuildOption::make_args, *)
(* BuildOption::build and CheckCall::check_call, over a filesystem that is *)
(* a map from paths to entries.                                            *)
(***************************************************************************)
EXTENDS Integers, Sequences, FiniteSets, TLC

VARIABLES
    opt,        \* make_args: the BuildOption value under test
    args,       \* make_args: what the last call returned
    prev,       \* make_args: what the call before it returned
    calls,      \* make_args: calls made so far
    fs,         \* the filesystem: path -> Dir or a file's contents
    fs0,        \* the filesystem as it was before any build call started
    pc,         \* build: each call's position in BuildOption::build
    outDir,     \* build: each call's out_dir argument
    self,       \* build: each call's BuildOption (self)
    to,         \* fs_extra::dir::copy: the destination root it settled on
    todoDirs,   \* fs_extra::dir::copy: directories of dir_content not yet created
    todoFiles,  \* fs_extra::dir::copy: files of dir_content not yet copied
    cmd,        \* the command line of the Command handed to check_call
    outcome,    \* what Command::status() did: spawned or not, exit status or error
    ccResult,   \* what check_call returned
    result,     \* how build ended: Ok, Err (returned) or Panic
    spawns      \* how many times each call ran Command::status() on make

argVars == <<opt, args, prev, calls>>
copyVars == <<to, todoDirs, todoFiles>>
callVars == <<cmd, outcome, ccResult, spawns>>
buildVars == <<fs, fs0, pc, outDir, self, to, todoDirs, todoFiles, cmd, outcome,
               ccResult, result, spawns>>
vars == <<opt, args, prev, calls, fs, fs0, pc, outDir, self, to, todoDirs,
          todoFiles, cmd, outcome, ccResult, result, spawns>>

----------------------------------------------------------------------------
(* Bounds *)

\* make_args is called at most this many times on one value
MaxCalls == 2

----------------------------------------------------------------------------
(* Target, Interface, BuildOption *)

Targets ==
    { "P2", "KATMAI", "COPPERMINE", "NORTHWOOD", "PRESCOTT", "BANIAS", "YONAH",
      "CORE2", "PENRYN", "DUNNINGTON", "NEHALEM", "SANDYBRIDGE", "HASWELL",
      "SKYLAKEX", "ATOM",
      "ATHLON", "OPTERON", "OPTERON_SSE3", "BARCELONA", "SHANGHAI", "ISTANBUL",
      "BOBCAT", "BULLDOZER", "PILEDRIVER", "STEAMROLLER", "EXCAVATOR", "ZEN",
      "SSE_GENERIC", "VIAC3", "NANO",
      "POWER4", "POWER5", "POWER6", "POWER7", "POWER8", "POWER9", "PPCG4",
      "PPC970", "PPC970MP", "PPC440", "PPC440FP2", "CELL",
      "P5600", "MIPS1004K", "MIPS24K",
      "SICORTEX", "LOONGSON3A", "LOONGSON3B", "I6400", "P6600", "I6500",
      "ITANIUM2",
      "SPARC", "SPARCV7",
      "CORTEXA15", "CORTEXA9", "ARMV7", "ARMV6", "ARMV5",
      "ARMV8", "CORTEXA53", "CORTEXA57", "CORTEXA72", "CORTEXA73", "NEOVERSEN1",
      "EMAG8180", "FALKOR", "THUNDERX", "THUNDERX2T99", "TSV110",
      "ZARCH_GENERIC", "Z13", "Z14" }

Interface == {"LP64", "ILP64"}

\* Option<Target>::None
NoTarget == "None"

BuildOption ==
    [ no_static : BOOLEAN, no_shared : BOOLEAN, no_cblas : BOOLEAN,
      no_lapack : BOOLEAN, no_lapacke : BOOLEAN, no_fortran : BOOLEAN,
      use_thread : BOOLEAN, use_openmp : BOOLEAN, dynamic_arch : BOOLEAN,
      interface : Interface, target : Targets \cup {NoTarget} ]

\* #[derive(Default)]: every bool false, Interface::default() = LP64, target None
DefaultOption ==
    [ no_static |-> FALSE, no_shared |-> FALSE, no_cblas |-> FALSE,
      no_lapack |-> FALSE, no_lapacke |-> FALSE, no_fortran |-> FALSE,
      use_thread |-> FALSE, use_openmp |-> FALSE, dynamic_arch |-> FALSE,
      interface |-> "LP64", target |-> NoTarget ]

\* if cond { args.push(token) }
PushIf(a, cond, token) == IF cond THEN Append(a, token) ELSE a

\* format!("TARGET={:?}", target): Debug of a fieldless variant is its name
TargetToken(t) == "TARGET=" \o t

\* a variant of make_args that also emits a token for dynamic_arch
make_args_dynamic_arch(o) ==
    LET a1 == PushIf(<<>>, o.no_static, "NO_STATIC=1")
        a2 == PushIf(a1, o.no_shared, "NO_SHARED=1")
        a3 == PushIf(a2, o.no_cblas, "NO_CBLAS=1")
        a4 == PushIf(a3, o.no_lapack, "NO_LAPACK=1")
        a5 == PushIf(a4, o.no_lapacke, "NO_LAPACKE=1")
        a6 == PushIf(a5, o.no_fortran, "NOFORTRAN=1")
        a7 == PushIf(a6, o.use_thread, "USE_THREAD=1")
        a8 == PushIf(a7, o.use_openmp, "USE_OPENMP=1")
        a8d == PushIf(a8, o.dynamic_arch, "DYNAMIC_ARCH=1")
        a9 == PushIf(a8d, o.interface = "ILP64", "INTERFACE64=1")
    IN  PushIf(a9, o.target # NoTarget, TargetToken(o.target))

\* a variant of make_args that pushes the interface token for either interface
make_args_any_interface(o) ==
    LET a1 == PushIf(<<>>, o.no_static, "NO_STATIC=1")
        a2 == PushIf(a1, o.no_shared, "NO_SHARED=1")
        a3 == PushIf(a2, o.no_cblas, "NO_CBLAS=1")
        a4 == PushIf(a3, o.no_lapack, "NO_LAPACK=1")
        a5 == PushIf(a4, o.no_lapacke, "NO_LAPACKE=1")
        a6 == PushIf(a5, o.no_fortran, "NOFORTRAN=1")
        a7 == PushIf(a6, o.use_thread, "USE_THREAD=1")
        a8 == PushIf(a7, o.use_openmp, "USE_OPENMP=1")
        a9 == PushIf(a8, TRUE, "INTERFACE64=1")
    IN  PushIf(a9, o.target # NoTarget, TargetToken(o.target))

\* a variant of make_args that tests use_thread and use_openmp in the other order
make_args_swapped(o) ==
    LET a1 == PushIf(<<>>, o.no_static, "NO_STATIC=1")
        a2 == PushIf(a1, o.no_shared, "NO_SHARED=1")
        a3 == PushIf(a2, o.no_cblas, "NO_CBLAS=1")
        a4 == PushIf(a3, o.no_lapack, "NO_LAPACK=1")
        a5 == PushIf(a4, o.no_lapacke, "NO_LAPACKE=1")
        a6 == PushIf(a5, o.no_fortran, "NOFORTRAN=1")
        a7 == PushIf(a6, o.use_openmp, "USE_OPENMP=1")
        a8 == PushIf(a7, o.use_thread, "USE_THREAD=1")
        a9 == PushIf(a8, o.interface = "ILP64", "INTERFACE64=1")
    IN  PushIf(a9, o.target # NoTarget, TargetToken(o.target))

\* BuildOption::make_args
make_args(o) ==
    LET a1 == PushIf(<<>>, o.no_static, "NO_STATIC=1")
        a2 == PushIf(a1, o.no_shared, "NO_SHARED=1")
        a3 == PushIf(a2, o.no_cblas, "NO_CBLAS=1")
        a4 == PushIf(a3, o.no_lapack, "NO_LAPACK=1")
        a5 == PushIf(a4, o.no_lapacke, "NO_LAPACKE=1")
        a6 == PushIf(a5, o.no_fortran, "NOFORTRAN=1")
        a7 == PushIf(a6, o.use_thread, "USE_THREAD=1")
        a8 == PushIf(a7, o.use_openmp, "USE_OPENMP=1")
        a9 == PushIf(a8, o.interface = "ILP64", "INTERFACE64=1")
    IN  PushIf(a9, o.target # NoTarget, TargetToken(o.target))

----------------------------------------------------------------------------
(* The filesystem: a function from the paths that exist to their entries.  *)
(* A path is a sequence of names below the crate directory, where the      *)
(* build script and the tests run.                                         *)

\* the entry of a directory; any other entry is a regular file's contents
Dir == "<dir>"

IsPrefix(a, b) == Len(a) <= Len(b) /\ SubSeq(b, 1, Len(a)) = a

\* the paths of f at or below d
Under(f, d) == {q \in DOMAIN f : IsPrefix(d, q)}

\* q relative to d (Path::strip_prefix)
Rel(d, q) == SubSeq(q, Len(d) + 1, Len(q))

Exists(f, q) == q \in DOMAIN f
IsDir(f, q) == q \in DOMAIN f /\ f[q] = Dir
IsFile(f, q) == q \in DOMAIN f /\ f[q] # Dir

Parent(q) == SubSeq(q, 1, Len(q) - 1)

\* q and every path above it
Ancestors(q) == {SubSeq(q, 1, i) : i \in 1..Len(q)}

Remove(f, q) == [x \in DOMAIN f \ {q} |-> f[x]]
Put(f, q, v) == [x \in DOMAIN f \cup {q} |-> IF x = q THEN v ELSE f[x]]
Merge(f, g) == [x \in DOMAIN f \cup DOMAIN g |-> IF x \in DOMAIN f THEN f[x] ELSE g[x]]

\* std::fs::create_dir_all can succeed: nothing on the way is a regular file
CanCreateAll(f, q) == \A a \in Ancestors(q) : a \in DOMAIN f => f[a] = Dir
CreateAll(f, q) == [x \in DOMAIN f \cup Ancestors(q) |-> IF x \in DOMAIN f THEN f[x] ELSE Dir]

\* a file can be created or truncated at q: its parent is a directory and q
\* itself is not one
CanWriteFile(f, q) == IsDir(f, Parent(q)) /\ ~IsDir(f, q)

----------------------------------------------------------------------------
(* Paths and initial filesystems *)

\* PathBuf::from(env!("CARGO_MANIFEST_DIR")).join("source")
SourceDir == <<"source">>
MakefilePath == SourceDir \o <<"Makefile">>

\* the out_dir arguments: the one of tests::build_default, a sibling, and a
\* directory nested in the first
OutDefault == <<"test_build", "build_default">>
OutOther == <<"test_build", "other">>
OutNested == <<"test_build", "build_default", "nested">>
OutDirs == {OutDefault, OutOther, OutNested}

OutLog(d) == d \o <<"out.log">>
ErrLog(d) == d \o <<"err.log">>

\* the OpenBLAS checkout
SourceCloned ==
    (SourceDir :> Dir) @@ (MakefilePath :> "all: libs") @@
    (<<"source", "kernel">> :> Dir) @@ (<<"source", "kernel", "gemm.c">> :> "gemm")
\* the submodule was never initialised: an empty directory
SourceEmpty == (SourceDir :> Dir)
\* a checkout whose Makefile is missing
SourceNoMakefile ==
    (SourceDir :> Dir) @@
    (<<"source", "kernel">> :> Dir) @@ (<<"source", "kernel", "gemm.c">> :> "gemm")
Sources == {SourceCloned, SourceEmpty, SourceNoMakefile}

NoFiles == [x \in {} |-> Dir]
\* what an earlier build left at test_build/build_default
OldDefault ==
    (<<"test_build">> :> Dir) @@ (OutDefault :> Dir) @@
    (OutDefault \o <<"Makefile">> :> "stale") @@
    (OutDefault \o <<"libopenblas.a">> :> "old lib") @@
    (OutNested :> Dir) @@ (OutNested \o <<"junk">> :> "junk")
\* test_build/build_default is a regular file
FileDefault == (<<"test_build">> :> Dir) @@ (OutDefault :> "a file")
OldOther ==
    (<<"test_build">> :> Dir) @@ (OutOther :> Dir) @@
    (OutOther \o <<"old.o">> :> "old obj")

InitFS ==
    { Merge(s, Merge(d, o)) :
        s \in Sources, d \in {NoFiles, OldDefault, FileDefault}, o \in {NoFiles, OldOther} }

----------------------------------------------------------------------------
(* Results *)

Procs == {1, 2}

NoResult == [kind |-> "None", what |-> "", cmd |-> <<>>, info |-> ""]
\* Ok(()) of check_call
OkUnit == [kind |-> "Ok", what |-> "()", cmd |-> <<>>, info |-> ""]
\* Ok(Detail {}) of build
OkDetail == [kind |-> "Ok", what |-> "Detail", cmd |-> <<>>, info |-> ""]
\* an io or fs_extra error converted by the ? operator
IoErr(what) == [kind |-> "Err", what |-> what, cmd |-> <<>>, info |-> "io error"]
Panic(what) == [kind |-> "Panic", what |-> what, cmd |-> <<>>, info |-> ""]
\* bail!: the message names what happened, the command (Debug) and info (Display)
Bail(what, c, info) == [kind |-> "Err", what |-> what, cmd |-> c, info |-> info]

NotCloned == "OpenBLAS repository has not been cloned. Run git submodule update --init"
CannotCreateLog == "Cannot create log file"
NotImplemented == "not yet implemented"
NonZeroStatus == "Subprocess returns with non-zero status"
ExecFailed == "Subprocess execution failed"

\* Display of ExitStatus
ExitZero == "exit code: 0"
ExitStatuses == {ExitZero, "exit code: 1", "exit code: 2", "signal: 9"}
\* Display of the io::Error of a failed spawn
SpawnErrors == {"No such file or directory (os error 2)", "Permission denied (os error 13)"}

NotRun == [spawned |-> FALSE, info |-> ""]

\* a variant of check_call that does not look at the exit status
check_call_ignores_status(c, oc) ==
    IF oc.spawned THEN OkUnit ELSE Bail(ExecFailed, c, oc.info)

\* CheckCall::check_call for Command, given what self.status() did
check_call(c, oc) ==
    IF oc.spawned
    THEN IF oc.info # ExitZero THEN Bail(NonZeroStatus, c, oc.info) ELSE OkUnit
    ELSE Bail(ExecFailed, c, oc.info)

----------------------------------------------------------------------------
(* BuildOption::build, one action per step of call p *)

\* the options the build calls are made with: the default one (as in
\* tests::build_default) and one with a flag and a target
HaswellOption == [DefaultOption EXCEPT !.use_thread = TRUE, !.target = "HASWELL"]
SampleOptions == {DefaultOption, HaswellOption}

\* a variant of Finish that runs make again after a non-zero exit
FinishRetry(p, r) ==
    /\ result' = [result EXCEPT ![p] = r]
    /\ pc' = [pc EXCEPT ![p] = IF r.what = NonZeroStatus THEN "spawn" ELSE "done"]

\* the call ends: a returned Err or a panic
Finish(p, r) ==
    /\ result' = [result EXCEPT ![p] = r]
    /\ pc' = [pc EXCEPT ![p] = "done"]

\* if out_dir.exists()
CheckExists(p) ==
    /\ pc[p] = "start"
    /\ pc' = [pc EXCEPT ![p] = IF Exists(fs, outDir[p]) THEN "remove" ELSE "source_dir"]
    /\ UNCHANGED <<argVars, fs, fs0, outDir, self, copyVars, callVars, result>>

\* a variant of RemoveTarget that clears the directory holding out_dir
RemoveTargetParent(d) == Parent(d)

\* the path handed to fs::remove_dir_all
RemoveTarget(d) == d

\* fs::remove_dir_all(&out_dir): one entry that has nothing below it goes
RemoveEntry(p) ==
    /\ pc[p] = "remove"
    /\ IsDir(fs, RemoveTarget(outDir[p]))
    /\ \E q \in Under(fs, RemoveTarget(outDir[p])) \ {RemoveTarget(outDir[p])} :
        /\ Under(fs, q) = {q}
        /\ fs' = Remove(fs, q)
    /\ UNCHANGED <<argVars, fs0, pc, outDir, self, copyVars, callVars, result>>

\* fs::remove_dir_all(&out_dir): the emptied directory itself goes
RemoveRoot(p) ==
    /\ pc[p] = "remove"
    /\ IsDir(fs, RemoveTarget(outDir[p]))
    /\ Under(fs, RemoveTarget(outDir[p])) = {RemoveTarget(outDir[p])}
    /\ fs' = Remove(fs, RemoveTarget(outDir[p]))
    /\ pc' = [pc EXCEPT ![p] = "source_dir"]
    /\ UNCHANGED <<argVars, fs0, outDir, self, copyVars, callVars, result>>

\* fs::remove_dir_all(&out_dir)?: an io error (out_dir is a regular file, is
\* gone, or the system refuses) is returned
RemoveFail(p) ==
    /\ pc[p] = "remove"
    /\ Finish(p, IoErr("remove_dir_all"))
    /\ UNCHANGED <<argVars, fs, fs0, outDir, self, copyVars, callVars>>

\* openblas_source_dir(), evaluated as the first argument of dir::copy
OpenblasSourceDir(p) ==
    /\ pc[p] = "source_dir"
    /\ IF ~Exists(fs, MakefilePath)
       THEN Finish(p, Panic(NotCloned))
       ELSE /\ pc' = [pc EXCEPT ![p] = "copy"]
            /\ UNCHANGED result
    /\ UNCHANGED <<argVars, fs, fs0, outDir, self, copyVars, callVars>>

\* a variant of CopyTo as under copy_inside: false: the name is always appended
CopyToNested(f, d) == d \o <<SourceDir[Len(SourceDir)]>>

\* the destination root of fs_extra::dir::copy under copy_inside: true,
\* content_only: false: the source's name is appended when out_dir exists
CopyTo(f, d) == IF Exists(f, d) THEN d \o <<SourceDir[Len(SourceDir)]>> ELSE d

\* fs_extra::dir::copy: the checks on from, the destination root, dir_content
CopyBegin(p) ==
    /\ pc[p] = "copy"
    /\ IF ~IsDir(fs, SourceDir)
       THEN /\ Finish(p, IoErr("dir::copy"))
            /\ UNCHANGED copyVars
       ELSE /\ to' = [to EXCEPT ![p] = CopyTo(fs, outDir[p])]
            /\ todoDirs' = [todoDirs EXCEPT ![p] = {q \in Under(fs, SourceDir) : fs[q] = Dir}]
            /\ todoFiles' = [todoFiles EXCEPT ![p] = {q \in Under(fs, SourceDir) : fs[q] # Dir}]
            /\ pc' = [pc EXCEPT ![p] = "copy_dirs"]
            /\ UNCHANGED result
    /\ UNCHANGED <<argVars, fs, fs0, outDir, self, callVars>>

\* fs_extra::dir::copy: for directory in dir_content.directories, create_all
\* unless it exists
CopyDir(p) ==
    /\ pc[p] = "copy_dirs"
    /\ \E d \in todoDirs[p] :
        LET dir == to[p] \o Rel(SourceDir, d) IN
        IF ~Exists(fs, dir) /\ ~CanCreateAll(fs, dir)
        THEN /\ Finish(p, IoErr("dir::copy"))
             /\ UNCHANGED <<fs, copyVars>>
        ELSE /\ fs' = IF Exists(fs, dir) THEN fs ELSE CreateAll(fs, dir)
             /\ todoDirs' = [todoDirs EXCEPT ![p] = @ \ {d}]
             /\ pc' = [pc EXCEPT ![p] = IF todoDirs[p] = {d} THEN "copy_files" ELSE "copy_dirs"]
             /\ UNCHANGED <<to, todoFiles, result>>
    /\ UNCHANGED <<argVars, fs0, outDir, self, callVars>>

\* fs_extra::dir::copy: for file in dir_content.files, file::copy with
\* overwrite: true
CopyFile(p) ==
    /\ pc[p] = "copy_files"
    /\ \E f \in todoFiles[p] :
        LET path == to[p] \o Rel(SourceDir, f) IN
        IF ~IsFile(fs, f) \/ ~CanWriteFile(fs, path)
        THEN /\ Finish(p, IoErr("dir::copy"))
             /\ UNCHANGED <<fs, copyVars>>
        ELSE /\ fs' = Put(fs, path, fs[f])
             /\ todoFiles' = [todoFiles EXCEPT ![p] = @ \ {f}]
             /\ UNCHANGED <<pc, to, todoDirs, result>>
    /\ UNCHANGED <<argVars, fs0, outDir, self, callVars>>

\* fs_extra::dir::copy returns Ok: every file of dir_content is copied
CopyDone(p) ==
    /\ pc[p] = "copy_files"
    /\ todoFiles[p] = {}
    /\ pc' = [pc EXCEPT ![p] = "out_log"]
    /\ UNCHANGED <<argVars, fs, fs0, outDir, self, copyVars, callVars, result>>

\* fs_extra::dir::copy(..)?: the system fails a read or a write
CopyFail(p) ==
    /\ pc[p] \in {"copy_dirs", "copy_files"}
    /\ Finish(p, IoErr("dir::copy"))
    /\ UNCHANGED <<argVars, fs, fs0, outDir, self, copyVars, callVars>>

\* a variant of AfterCreate that goes on without the log file
AfterCreateUnchecked(p, created, next) ==
    /\ pc' = [pc EXCEPT ![p] = next]
    /\ UNCHANGED result

\* where build goes after the log file at path was, or was not, created
AfterCreate(p, created, next) ==
    IF created
    THEN /\ pc' = [pc EXCEPT ![p] = next]
         /\ UNCHANGED result
    ELSE Finish(p, Panic(CannotCreateLog))

\* fs::File::create(path).expect("Cannot create log file"); ok is whether the
\* system lets the creation through
CreateLog(p, path, ok, next) ==
    LET created == ok /\ CanWriteFile(fs, path) IN
    /\ fs' = IF created THEN Put(fs, path, "") ELSE fs
    /\ AfterCreate(p, created, next)

\* let out = fs::File::create(out_dir.join("out.log")).expect(..)
CreateOutLog(p) ==
    /\ pc[p] = "out_log"
    /\ \E ok \in BOOLEAN : CreateLog(p, OutLog(outDir[p]), ok, "err_log")
    /\ UNCHANGED <<argVars, fs0, outDir, self, copyVars, callVars>>

\* let err = fs::File::create(out_dir.join("err.log")).expect(..)
CreateErrLog(p) ==
    /\ pc[p] = "err_log"
    /\ \E ok \in BOOLEAN : CreateLog(p, ErrLog(outDir[p]), ok, "spawn")
    /\ UNCHANGED <<argVars, fs0, outDir, self, copyVars, callVars>>

\* Debug of the Command: the program and its arguments
CommandLine(o) == <<"make">> \o make_args(o)

\* Command::new("make").current_dir(out_dir)...args(&self.make_args())
\* .check_call(): self.status() launches the child, or fails to
Spawn(p) ==
    /\ pc[p] = "spawn"
    /\ cmd' = [cmd EXCEPT ![p] = CommandLine(self[p])]
    /\ spawns' = [spawns EXCEPT ![p] = @ + 1]
    /\ \/ /\ IsDir(fs, outDir[p])
          /\ outcome' = [outcome EXCEPT ![p] = [spawned |-> TRUE, info |-> "running"]]
          /\ pc' = [pc EXCEPT ![p] = "wait"]
          /\ UNCHANGED <<ccResult, result>>
       \/ \E e \in SpawnErrors :
          /\ outcome' = [outcome EXCEPT ![p] = [spawned |-> FALSE, info |-> e]]
          /\ ccResult' = [ccResult EXCEPT ![p] = check_call(cmd'[p], outcome'[p])]
          /\ Finish(p, ccResult'[p])
    /\ UNCHANGED <<argVars, fs, fs0, outDir, self, copyVars>>

\* the running make writes to its stdout and stderr, which are out.log and
\* err.log
MakeLog(p) ==
    /\ pc[p] = "wait"
    /\ IsFile(fs, OutLog(outDir[p])) /\ IsFile(fs, ErrLog(outDir[p]))
    /\ fs' = Put(Put(fs, OutLog(outDir[p]), "make: out"), ErrLog(outDir[p]), "make: err")
    /\ UNCHANGED <<argVars, fs0, pc, outDir, self, copyVars, callVars, result>>

\* the running make leaves the library in its working directory
MakeArtifact(p) ==
    /\ pc[p] = "wait"
    /\ IsDir(fs, outDir[p])
    /\ ~IsDir(fs, outDir[p] \o <<"libopenblas.a">>)
    /\ fs' = Put(fs, outDir[p] \o <<"libopenblas.a">>, "new lib")
    /\ UNCHANGED <<argVars, fs0, pc, outDir, self, copyVars, callVars, result>>

\* self.status() returns Ok(status); check_call()? either returns the error
\* from build or lets it go on
MakeExit(p) ==
    /\ pc[p] = "wait"
    /\ \E st \in ExitStatuses :
        /\ outcome' = [outcome EXCEPT ![p] = [spawned |-> TRUE, info |-> st]]
        /\ ccResult' = [ccResult EXCEPT ![p] = check_call(cmd[p], outcome'[p])]
        /\ IF ccResult'[p].kind = "Ok"
           THEN /\ pc' = [pc EXCEPT ![p] = "todo"]
                /\ UNCHANGED result
           ELSE Finish(p, ccResult'[p])
    /\ UNCHANGED <<argVars, fs, fs0, outDir, self, copyVars, cmd, spawns>>

\* todo!()
Todo(p) ==
    /\ pc[p] = "todo"
    /\ Finish(p, Panic(NotImplemented))
    /\ UNCHANGED <<argVars, fs, fs0, outDir, self, copyVars, callVars>>

\* one step of call p, or of the make it launched
Build(p) ==
    \/ CheckExists(p)
    \/ RemoveEntry(p)
    \/ RemoveRoot(p)
    \/ RemoveFail(p)
    \/ OpenblasSourceDir(p)
    \/ CopyBegin(p)
    \/ CopyDir(p)
    \/ CopyFile(p)
    \/ CopyDone(p)
    \/ CopyFail(p)
    \/ CreateOutLog(p)
    \/ CreateErrLog(p)
    \/ Spawn(p)
    \/ MakeLog(p)
    \/ MakeArtifact(p)
    \/ MakeExit(p)
    \/ Todo(p)

Next == \E p \in Procs : Build(p)

\* no make_args call under test
ArgsIdle == opt = DefaultOption /\ args = <<>> /\ prev = <<>> /\ calls = 0

\* the calls in active are about to start; the others are never made
InitBuild(active) ==
    /\ fs \in InitFS
    /\ fs0 = fs
    /\ pc = [p \in Procs |-> IF p \in active THEN "start" ELSE "off"]
    /\ outDir \in {d \in [Procs -> OutDirs] : \A p \in Procs \ active : d[p] = OutDefault}
    /\ self \in {o \in [Procs -> SampleOptions] : \A p \in Procs \ active : o[p] = DefaultOption}
    /\ to = [p \in Procs |-> <<>>]
    /\ todoDirs = [p \in Procs |-> {}]
    /\ todoFiles = [p \in Procs |-> {}]
    /\ cmd = [p \in Procs |-> <<>>]
    /\ outcome = [p \in Procs |-> NotRun]
    /\ ccResult = [p \in Procs |-> NoResult]
    /\ result = [p \in Procs |-> NoResult]
    /\ spawns = [p \in Procs |-> 0]

\* one build call
Init == ArgsIdle /\ InitBuild({1})
Spec == Init /\ [][Next]_vars

\* two build calls running concurrently
InitConc == ArgsIdle /\ InitBuild(Procs)
SpecConc == InitConc /\ [][Next]_vars

----------------------------------------------------------------------------
(* make_args on every BuildOption value *)

\* let args = opt.make_args()
CallMakeArgs ==
    /\ calls < MaxCalls
    /\ prev' = args
    /\ args' = make_args(opt)
    /\ calls' = calls + 1
    /\ UNCHANGED <<opt, buildVars>>

NextArgs == CallMakeArgs

InitArgs ==
    /\ opt \in BuildOption
    /\ args = <<>> /\ prev = <<>> /\ calls = 0
    /\ fs = SourceCloned /\ fs0 = fs
    /\ pc = [p \in Procs |-> "off"]
    /\ outDir = [p \in Procs |-> OutDefault]
    /\ self = [p \in Procs |-> DefaultOption]
    /\ to = [p \in Procs |-> <<>>]
    /\ todoDirs = [p \in Procs |-> {}]
    /\ todoFiles = [p \in Procs |-> {}]
    /\ cmd = [p \in Procs |-> <<>>]
    /\ outcome = [p \in Procs |-> NotRun]
    /\ ccResult = [p \in Procs |-> NoResult]
    /\ result = [p \in Procs |-> NoResult]
    /\ spawns = [p \in Procs |-> 0]

SpecArgs == InitArgs /\ [][NextArgs]_vars

----------------------------------------------------------------------------
(* Properties *)

\* the tree rooted at d, by relative path: equal trees are exact copies
Tree(f, d) == [r \in {Rel(d, q) : q \in Under(f, d)} |-> f[d \o r]]

\* the tree at d holds every entry of the source tree, with its contents
HoldsCopy(f, d) ==
    \A q \in Under(f, SourceDir) :
        LET c == d \o Rel(SourceDir, q) IN Exists(f, c) /\ f[c] = f[q]

HasLogs(f, d) == IsFile(f, OutLog(d)) /\ IsFile(f, ErrLog(d))

\* neither directory is the other or lies inside it
Disjoint(a, b) == ~IsPrefix(a, b) /\ ~IsPrefix(b, a)

\* call p launched make in this step
Launches(p) == spawns'[p] > spawns[p] /\ outcome'[p].spawned

\* C1: when the source directory holds no Makefile, build fails before any
\* other work: the filesystem is as it was before the call and make was not
\* launched.
C1_FailsBeforeAnyWork ==
    \A p \in Procs :
        result[p] = Panic(NotCloned) => fs = fs0 /\ spawns[p] = 0

\* C2: when staging succeeded and make exited with status zero, build returns
\* Ok(Detail), and out.log and err.log exist in out_dir.
C2_ExitZeroReturnsOk ==
    \A p \in Procs :
        (pc[p] = "done" /\ outcome[p].spawned /\ outcome[p].info = ExitZero)
            => result[p] = OkDetail /\ HasLogs(fs, outDir[p])

\* C3: check_call reports success only when the process was spawned and
\* exited with status zero; a non-zero exit gives an error with the command
\* line and the exit status, a spawn failure gives a different error with the
\* command line and the system error.
C3_CheckCallClassifies ==
    \A p \in Procs :
        ccResult[p] # NoResult =>
            /\ cmd[p] = <<"make">> \o make_args(self[p])
            /\ ccResult[p].kind = "Ok"
                => outcome[p].spawned /\ outcome[p].info = ExitZero
            /\ (outcome[p].spawned /\ outcome[p].info # ExitZero)
                => /\ ccResult[p].kind = "Err"
                   /\ ccResult[p].what = NonZeroStatus
                   /\ ccResult[p].cmd = cmd[p]
                   /\ ccResult[p].info = outcome[p].info
                   /\ ccResult[p].info \in ExitStatuses
            /\ ~outcome[p].spawned
                => /\ ccResult[p].kind = "Err"
                   /\ ccResult[p].what = ExecFailed
                   /\ ccResult[p].what # NonZeroStatus
                   /\ ccResult[p].cmd = cmd[p]
                   /\ ccResult[p].info = outcome[p].info
                   /\ ccResult[p].info \in SpawnErrors

C3_NonZeroExitSeen ==
    \E p \in Procs :
        /\ outcome[p].spawned /\ outcome[p].info = "exit code: 2"
        /\ ccResult[p].kind = "Err"

RECURSIVE IsSubseq(_, _)
\* a is b with some elements left out
IsSubseq(a, b) ==
    IF a = <<>> THEN TRUE
    ELSE IF b = <<>> THEN FALSE
    ELSE IF Head(a) = Head(b) THEN IsSubseq(Tail(a), Tail(b))
    ELSE IsSubseq(a, Tail(b))

NoRepeat(a) == \A i, j \in 1..Len(a) : a[i] = a[j] => i = j

\* the fixed list of C4 for option o: the target token is that of o's target
FixedList(o) ==
    << "NO_STATIC=1", "NO_SHARED=1", "NO_CBLAS=1", "NO_LAPACK=1", "NO_LAPACKE=1",
       "NOFORTRAN=1", "USE_THREAD=1", "USE_OPENMP=1", "INTERFACE64=1" >>
    \o (IF o.target = NoTarget THEN <<>> ELSE <<"TARGET=" \o o.target>>)

\* C4: make_args returns a subsequence of the fixed list (flag tokens in
\* that order, then the interface token, then the target token), with no
\* token repeated, and a second call on the same value returns the same
\* sequence.
C4_ArgsOrdered ==
    calls > 0 =>
        /\ IsSubseq(args, FixedList(opt))
        /\ NoRepeat(args)
        /\ calls > 1 => prev = args

C4_TwoCallsAllKinds ==
    /\ calls = 2
    /\ opt.use_thread /\ opt.use_openmp /\ ~opt.no_static
    /\ opt.interface = "ILP64" /\ opt.target = "ZEN"
    /\ Len(args) = 4

Count(b) == IF b THEN 1 ELSE 0

\* C5: the number of tokens is the number of true flags among the eight
\* (no_static .. use_openmp), plus one for ILP64, plus one for a target; the
\* default option gives the empty sequence.
C5_ArgsCount ==
    calls > 0 =>
        /\ Len(args) =
              Count(opt.no_static) + Count(opt.no_shared) + Count(opt.no_cblas)
            + Count(opt.no_lapack) + Count(opt.no_lapacke) + Count(opt.no_fortran)
            + Count(opt.use_thread) + Count(opt.use_openmp)
            + Count(opt.interface = "ILP64") + Count(opt.target # NoTarget)
        /\ ( /\ ~opt.no_static /\ ~opt.no_shared /\ ~opt.no_cblas /\ ~opt.no_lapack
             /\ ~opt.no_lapacke /\ ~opt.no_fortran /\ ~opt.use_thread
             /\ ~opt.use_openmp /\ opt.interface = "LP64" /\ opt.target = NoTarget )
           => args = <<>>

C5_DefaultCalled == calls > 0 /\ opt = DefaultOption /\ args = <<>>

\* C6: the argument list does not depend on dynamic_arch, and an option with
\* only use_thread set and target HASWELL gives [USE_THREAD=1, TARGET=HASWELL].
C6_DynamicArchIgnored ==
    calls > 0 =>
        /\ args = make_args([opt EXCEPT !.dynamic_arch = ~opt.dynamic_arch])
        /\ [opt EXCEPT !.dynamic_arch = FALSE] = HaswellOption
            => args = <<"USE_THREAD=1", "TARGET=HASWELL">>

C6_HaswellCalled ==
    /\ calls > 0
    /\ opt = [HaswellOption EXCEPT !.dynamic_arch = TRUE]
    /\ args = <<"USE_THREAD=1", "TARGET=HASWELL">>

\* C7: once staging into an out_dir that existed before the call has
\* succeeded, out_dir is exactly a copy of the source tree, directly inside
\* it, nothing of the old out_dir remains, and the source directory is as it
\* was.
C7_StagedIsExactCopy ==
    \A p \in Procs :
        (pc[p] = "out_log" /\ IsDir(fs0, outDir[p]))
            => /\ Tree(fs, outDir[p]) = Tree(fs0, SourceDir)
               /\ Tree(fs, SourceDir) = Tree(fs0, SourceDir)

C7_StagedOverOld ==
    /\ pc[1] = "out_log"
    /\ outDir[1] = OutDefault
    /\ IsFile(fs0, OutDefault \o <<"libopenblas.a">>)
    /\ IsFile(fs0, OutNested \o <<"junk">>)

\* C8: make is launched only when the copy is complete and out.log and
\* err.log exist in out_dir; when creating either log file fails the call
\* ends there and make is never launched.
C8_MakeAfterCopyAndLogs ==
    /\ [][\A p \in Procs :
            spawns'[p] # spawns[p]
                => /\ pc[p] = "spawn"
                   /\ HoldsCopy(fs, outDir[p])
                   /\ HasLogs(fs, outDir[p])]_vars
    /\ [](\A p \in Procs :
            result[p] = Panic(CannotCreateLog) => pc[p] = "done" /\ spawns[p] = 0)

C8_MakeLaunched ==
    /\ pc[1] = "wait" /\ spawns[1] = 1
    /\ HasLogs(fs, outDir[1]) /\ HoldsCopy(fs, outDir[1])

\* C9: a failure of the make step is terminal and leaves everything in
\* place: build returns that error, make was launched at most once, and from
\* then on nothing on disk changes; out_dir, the copy and both logs are there.
C9_MakeFailureIsTerminal ==
    /\ [](\A p \in Procs :
            ccResult[p].kind = "Err"
                => /\ pc[p] = "done"
                   /\ result[p] = ccResult[p]
                   /\ spawns[p] = 1
                   /\ IsDir(fs, outDir[p])
                   /\ HoldsCopy(fs, outDir[p])
                   /\ HasLogs(fs, outDir[p]))
    /\ [][\A p \in Procs :
            ccResult[p].kind = "Err"
                => fs' = fs /\ spawns' = spawns /\ pc'[p] = "done"]_vars

C9_FailedWithLogs ==
    /\ pc[1] = "done"
    /\ ccResult[1].what = NonZeroStatus
    /\ fs[OutLog(outDir[1])] = "make: out"
    /\ IsFile(fs, outDir[1] \o <<"Makefile">>)

\* C10: two concurrent calls with different, non-nested out_dirs do not
\* interfere: when a call launches make its out_dir holds a complete copy of
\* the source tree and its two logs, and no step of a call changes anything
\* in the other call's out_dir.
C10_DisjointCallsIndependent ==
    [][\A p, q \in Procs :
        (p # q /\ Disjoint(outDir[p], outDir[q]))
            => /\ Launches(p)
                    => HoldsCopy(fs, outDir[p]) /\ HasLogs(fs, outDir[p])
               /\ Build(p) => Tree(fs', outDir[q]) = Tree(fs, outDir[q])]_vars

C10_BothLaunched ==
    /\ Disjoint(outDir[1], outDir[2])
    /\ pc[1] = "wait" /\ pc[2] = "wait"
    /\ IsDir(fs0, outDir[1]) /\ IsDir(fs0, outDir[2])

====
